---- MODULE Spec2Model ----
(***************************************************************************)
(* Chat-to-media rendering engine of the ChatStoryMaker server.            *)
(*                                                                         *)
(* The model follows one render job through main.py (start_render,         *)
(* render_video, download_video) and renderer.py (VideoRenderer.__init__,  *)
(* render, render_frame, calculate_bubble_height, create_audio), and takes *)
(* the word wrap of calculate_bubble_height and draw_bubble on its own.    *)
(* Further specifications take the same server with long conversations,    *)
(* with the typing indicator switched off, and with status and download    *)
(* requests arriving at any time; one bubble measured and drawn; and the    *)
(* screenshot endpoint with its page split.                                 *)
(*                                                                         *)
(* Abstractions:                                                           *)
(*  - a message text is the pair (len, nlines): len(text) and the number   *)
(*    of lines the greedy wrap loop of calculate_bubble_height produces    *)
(*    for it under the request's font; the glyph widths are PIL's;         *)
(*  - a frame is the record of what render_frame was asked to draw and of  *)
(*    the start_index it computed; `frames` is kept run-length encoded:    *)
(*    one run per `for _ in range(k): frames.append(frame)` loop;          *)
(*  - seconds are rationals [num, den]; frame_count / FPS is               *)
(*    [num |-> frame_count, den |-> FPS];                                  *)
(*  - int(x) of a non-negative float is floor; the products below were     *)
(*    compared with CPython's doubles for every constant used;             *)
(*  - progress values are fractions [num, den] compared by cross           *)
(*    multiplication;                                                      *)
(*  - in the word wrap a string is a sequence of one-character strings     *)
(*    and its rendered width is the sum of the widths of its characters.   *)
(***************************************************************************)
EXTENDS Integers, Sequences, FiniteSets, TLC

(***************************************************************************)
(* Bounds of the model                                                     *)
(***************************************************************************)
MaxMsgs == 2

(***************************************************************************)
(* Program constants (renderer.py)                                         *)
(***************************************************************************)
FPS == 30
SUPERSAMPLE_SCALE == 2
RevealHoldFrames == 10
TrailingHoldFrames == 60

\* seconds per character, in hundredths of a second
TYPING_SPEEDS == [slow |-> 20, normal |-> 12, fast |-> 6]

RESOLUTIONS ==
  [tiktok    |-> <<1080, 1920>>,
   instagram |-> <<1080, 1080>>,
   youtube   |-> <<1920, 1080>>,
   iphone    |-> <<1284, 2778>>]

Max(a, b) == IF a >= b THEN a ELSE b
Min(a, b) == IF a <= b THEN a ELSE b

(***************************************************************************)
(* Requests                                                                *)
(***************************************************************************)
Me    == [id |-> "me",    is_me |-> TRUE]
Other == [id |-> "other", is_me |-> FALSE]
Third == [id |-> "third", is_me |-> FALSE]

\* A text, as (len(text), number of wrapped lines)
Empty == [len |-> 0,   nlines |-> 0]
Short == [len |-> 5,   nlines |-> 1]
Mid   == [len |-> 40,  nlines |-> 2]
Tall  == [len |-> 110, nlines |-> 14]

Formats == {"tiktok", "instagram"}
Speeds == {"slow", "normal", "fast"}

\* "third" is an unknown character id when the request has two characters
MessageBodies ==
  { [text |-> Empty, character_id |-> "me"],
    [text |-> Short, character_id |-> "me"],
    [text |-> Mid,   character_id |-> "other"],
    [text |-> Tall,  character_id |-> "other"],
    [text |-> Short, character_id |-> "third"] }

\* 1:1 chat; group chat by flag; group chat by number of characters
Chats ==
  { [characters |-> <<Me, Other>>,        is_group_chat |-> FALSE],
    [characters |-> <<Me, Other>>,        is_group_chat |-> TRUE],
    [characters |-> <<Me, Other, Third>>, is_group_chat |-> FALSE] }

RECURSIVE SeqsUpTo(_, _)
SeqsUpTo(S, n) ==
  IF n = 0 THEN { <<>> }
  ELSE LET shorter == SeqsUpTo(S, n - 1)
       IN  shorter \cup { Append(s, x) : s \in { t \in shorter : Len(t) = n - 1 }, x \in S }

\* message ids are the positions in the list
WithIds(bodies) ==
  [i \in 1..Len(bodies) |->
     [id |-> i, text |-> bodies[i].text, character_id |-> bodies[i].character_id]]

\* every speed in the tiktok format, the normal speed in the other format
Settings ==
  { x \in [format : Formats, typing_speed : Speeds] :
      x.format = "tiktok" \/ x.typing_speed = "normal" }

Requests ==
  { [messages |-> WithIds(b), characters |-> c.characters,
     is_group_chat |-> c.is_group_chat, format |-> x.format,
     typing_speed |-> x.typing_speed, show_keyboard |-> k,
     show_typing_indicator |-> TRUE, enable_sounds |-> e] :
      b \in SeqsUpTo(MessageBodies, MaxMsgs), c \in Chats,
      x \in Settings, k \in BOOLEAN, e \in BOOLEAN }

(***************************************************************************)
(* State                                                                   *)
(***************************************************************************)
VARIABLES
  request,            \* the RenderRequest posted to /render
  jobs,               \* main.py: jobs, job id -> job entry
  pc,                 \* position of the render worker
  frames_per_char,    \* VideoRenderer.frames_per_char
  message_timings,    \* VideoRenderer.message_timings
  frames,             \* render: frames, as runs [frame, n]
  visible_messages,   \* render: visible_messages
  frame_count,        \* render: frame_count
  index,              \* render: index of the for loop (0-based)
  audio,              \* the clip's audio track: <<>> is None, else <<track>>
  encoded,            \* number of frames written by write_videofile
  output_path,        \* path returned by render ("None" before)
  returns,            \* what each completed call of render left: frame count, cues
  reported,           \* the values render passed to progress_callback, in order
  upload,             \* what became of the upload step of render_video
  local_file,         \* a file exists at the path render wrote to
  wrap_text,          \* word wrap: the text, a sequence of characters
  wrap_width,         \* word wrap: max_text_width
  wrap_lines,         \* word wrap: lines, each a sequence of characters
  wrap_by,            \* word wrap: the function that wrapped ("none" before)
  screenshot_request, \* the ScreenshotRequest posted to /render-screenshot
  screenshot_response,\* the ScreenshotResponse: << >> before, else << response >>
  response,           \* the last answer to a status or download request: << >> or << answer >>
  bubble              \* one bubble measured and drawn: << >> or << measures >>

wrap_vars == << wrap_text, wrap_width, wrap_lines, wrap_by >>
screenshot_vars == << screenshot_request, screenshot_response >>
aside_vars == << wrap_vars, screenshot_vars, response, bubble >>

vars == << request, jobs, pc, frames_per_char, message_timings, frames,
           visible_messages, frame_count, index, audio, encoded,
           output_path, returns, reported, upload, local_file, aside_vars >>

JobId == "job-1"
LocalPath == "/tmp/video.mp4"
DownloadUrl == "/download/job-1"
SecureUrl == "https://res.cloudinary.com/chatstorymaker/job-1"

(***************************************************************************)
(* VideoRenderer.__init__ : geometry                                       *)
(***************************************************************************)
render_width(req)  == RESOLUTIONS[req.format][1] * SUPERSAMPLE_SCALE
render_height(req) == RESOLUTIONS[req.format][2] * SUPERSAMPLE_SCALE

\* frame_aspect <= PHONE_ASPECT_RATIO, with PHONE_ASPECT_RATIO = 9 / 16
FitsWidth(req) == render_width(req) * 16 <= render_height(req) * 9

phone_width(req) ==
  IF FitsWidth(req) THEN render_width(req)
  ELSE (render_height(req) * 9) \div 16

phone_height(req) ==
  IF FitsWidth(req) THEN (render_width(req) * 16) \div 9
  ELSE render_height(req)

\* int(k * self.scale), self.scale = phone_width / 390.0
Scaled(req, k) == (k * phone_width(req)) \div 390

\* mutant: only the request's flag makes a group chat
is_group_chat_flag_only(req) == req.is_group_chat

\* self._is_group_chat = request.is_group_chat or len(request.characters) > 2
is_group_chat(req) == req.is_group_chat \/ Len(req.characters) > 2

keyboard_height(req)  == Scaled(req, 216)
input_bar_height(req) == Scaled(req, 52)
header_height(req) ==
  IF ~ is_group_chat(req) THEN Scaled(req, 120) ELSE Scaled(req, 50)

\* max(1, int(self.typing_speed * FPS))
FramesPerChar(speed) == Max(1, (TYPING_SPEEDS[speed] * FPS) \div 100)

\* Optional[Character]: <<>> is None, <<c>> is the character c
get_character(req, character_id) ==
  LET hits == { i \in 1..Len(req.characters) : req.characters[i].id = character_id }
  IN  IF hits = {} THEN <<>> ELSE << req.characters[CHOOSE i \in hits : TRUE] >>

\* is_me = character.is_me if character else True
IsMe(character) == IF character # <<>> THEN character[1].is_me ELSE TRUE

(***************************************************************************)
(* calculate_bubble_height                                                 *)
(***************************************************************************)
calculate_bubble_height(req, text, is_me, character) ==
  LET line_height == Scaled(req, 22)
      text_height == Max(text.nlines, 1) * line_height
      height      == text_height + Scaled(req, 16) + Scaled(req, 8)
  IN  IF is_group_chat(req) /\ ~ is_me /\ character # <<>>
      THEN height + Scaled(req, 18)
      ELSE height

(***************************************************************************)
(* render_frame : message area and auto-scroll                             *)
(***************************************************************************)
message_area_top(req) == header_height(req) + Scaled(req, 10)

message_area_bottom(req) ==
  IF req.show_keyboard
  THEN (phone_height(req) - keyboard_height(req)) - input_bar_height(req) - Scaled(req, 10)
  ELSE phone_height(req) - Scaled(req, 20)

available_height(req) == message_area_bottom(req) - message_area_top(req)

typing_indicator_height(req, show_typing_indicator) ==
  IF show_typing_indicator THEN Scaled(req, 50) ELSE 0

MessageHeights(req, visible) ==
  [i \in 1..Len(visible) |->
     calculate_bubble_height(req, visible[i].text, IsMe(visible[i].character),
                             visible[i].character)]

RECURSIVE SumSeq(_)
SumSeq(s) == IF s = <<>> THEN 0 ELSE s[1] + SumSeq(Tail(s))

\* for i in range(len(visible_messages) - 1, -1, -1): ... else: break
\* i and start_index are Python's 0-based indexes; heights[i + 1] is message_heights[i]
\* mutant: a message is taken into the window only if twice its height fits
RoomForTwice(total_height, height, avail) == total_height + 2 * height <= avail

\* if total_height + message_heights[i] <= available_height
RoomFor(total_height, height, avail) == total_height + height <= avail

RECURSIVE ScanBack(_, _, _, _, _)
ScanBack(heights, avail, i, total_height, start_index) ==
  IF i < 0 THEN start_index
  ELSE IF RoomFor(total_height, heights[i + 1], avail)
       THEN ScanBack(heights, avail, i - 1, total_height + heights[i + 1], i)
       ELSE start_index

\* mutant: content that fits is windowed on the latest message alone
StartIndexLatestOnly(heights, indicator_height, avail) ==
  IF SumSeq(heights) + indicator_height <= avail
  THEN Max(Len(heights) - 1, 0)
  ELSE ScanBack(heights, avail, Len(heights) - 1, indicator_height, 0)

StartIndex(heights, indicator_height, avail) ==
  IF SumSeq(heights) + indicator_height <= avail
  THEN 0
  ELSE ScanBack(heights, avail, Len(heights) - 1, indicator_height, 0)

\* for i in range(start_index, len(visible_messages)): draw_bubble(...)
DrawnMessages(visible, start_index) ==
  [i \in 1..(Len(visible) - start_index) |-> visible[start_index + i].message]

\* The frame, as what it shows: the visible list it was given, the first
\* message drawn, the bubbles drawn, whether the typing indicator is drawn,
\* the keyboard draft (number of characters typed, -1 for None) and the
\* highlighted key (position of the character in the text, 0 for None).
render_frame(req, visible, show_typing_indicator, typing_character, keyboard_typing_text, highlighted_key) ==
  LET heights == MessageHeights(req, visible)
      start   == StartIndex(heights,
                            typing_indicator_height(req, show_typing_indicator),
                            available_height(req))
  IN  [ visible     |-> [i \in 1..Len(visible) |-> visible[i].message],
        start_index |-> start,
        drawn       |-> DrawnMessages(visible, start),
        show_typing_indicator |-> show_typing_indicator,
        indicator_drawn |-> show_typing_indicator /\ typing_character # <<>>,
        keyboard_typing_text |-> keyboard_typing_text,
        highlighted_key |-> highlighted_key ]

(***************************************************************************)
(* render : timing                                                         *)
(***************************************************************************)
\* mutant: the cue carries the 1-based number of the frame
FrameTimeOneBased(count) == [num |-> count + 1, den |-> FPS]

\* frame_count / FPS
FrameTime(count) == [num |-> count, den |-> FPS]

\* frames.append(frame); frame_count += 1, once per frame of each run
RECURSIVE RunFrames(_)
RunFrames(runs) == IF runs = <<>> THEN 0 ELSE runs[1].n + RunFrames(Tail(runs))

\* mutant: the indicator hold is not clamped
TypingFramesUnclamped(text) == (text.len * FPS) \div 20

\* int(min(max(len(text) / 20.0, 1.5), 2.5) * FPS); the duration in 1/20 s
TypingFrames(text) == (Min(Max(text.len, 30), 50) * FPS) \div 20

\* mutant: the reading pause takes the divisor of the indicator hold
PauseFramesAsTyping(text) == (Min(Max(2 * text.len, 75), 150) * FPS) \div 40

\* int(min(max(len(text) / 25.0, 1.5), 3.0) * FPS); the duration in 1/50 s
PauseFrames(text) == (Min(Max(2 * text.len, 75), 150) * FPS) \div 50

Visible(message, character) ==
  [message |-> message.id, text |-> message.text, character |-> character]

\* mutant: range(1, total_chars), the last character is never typed
CharRunsOneShort(req, visible, message, fpc) ==
  [char_index \in 1..(message.text.len - 1) |->
     [frame |-> render_frame(req, visible, FALSE, <<>>, char_index, char_index),
      n     |-> fpc]]

\* the per-character frames of a self message, frames_per_char of each
CharRuns(req, visible, message, fpc) ==
  [char_index \in 1..message.text.len |->
     [frame |-> render_frame(req, visible, FALSE, <<>>, char_index, char_index),
      n     |-> fpc]]

\* mutant: the hold frame keeps the last key pressed
HoldRunKeyDown(req, visible, message) ==
  [frame |-> render_frame(req, visible, FALSE, <<>>, message.text.len, message.text.len),
   n     |-> RevealHoldFrames]

\* the frame showing the whole text in the input field, held 10 frames
HoldRun(req, visible, message) ==
  [frame |-> render_frame(req, visible, FALSE, <<>>, message.text.len, 0),
   n     |-> RevealHoldFrames]

\* the typing-indicator frame of a received message
IndicatorRun(req, visible, message, character) ==
  [frame |-> render_frame(req, visible, TRUE, character, -1, 0),
   n     |-> TypingFrames(message.text)]

\* the frame held while the message is read
PauseRun(req, visible, message) ==
  [frame |-> render_frame(req, visible, FALSE, <<>>, -1, 0),
   n     |-> PauseFrames(message.text)]

\* mutant: the trailing hold lasts one second
TrailingRunOneSecond(req, visible) ==
  [frame |-> render_frame(req, visible, FALSE, <<>>, -1, 0),
   n     |-> FPS]

\* the final frame, held 60 frames after the loop
TrailingRun(req, visible) ==
  [frame |-> render_frame(req, visible, FALSE, <<>>, -1, 0),
   n     |-> TrailingHoldFrames]

\* mutant: the cue of a self message is taken before the 10-frame hold
TimingBeforeHold(message, count, is_me) ==
  [message_id |-> message.id,
   time |-> [num |-> IF is_me THEN count - RevealHoldFrames ELSE count, den |-> FPS],
   is_me |-> is_me]

\* self.message_timings.append({...}), message_time = frame_count / FPS
Timing(message, count, is_me) ==
  [message_id |-> message.id, time |-> FrameTime(count), is_me |-> is_me]

(***************************************************************************)
(* create_audio                                                            *)
(***************************************************************************)
SoundPath(is_me) == IF is_me THEN "send.mp3" ELSE "receive.mp3"

\* send_ok / receive_ok: the asset file exists and AudioFileClip opens it
ScheduledClips(timings, send_ok, receive_ok) ==
  LET Loads(t) == IF t.is_me THEN send_ok ELSE receive_ok
      kept     == SelectSeq(timings, Loads)
  IN  [i \in 1..Len(kept) |->
         [start |-> kept[i].time, sound |-> SoundPath(kept[i].is_me)]]

create_audio(timings, total_duration, send_ok, receive_ok) ==
  IF timings = <<>> THEN <<>>
  ELSE LET clips == ScheduledClips(timings, send_ok, receive_ok)
       IN  IF clips = <<>> THEN <<>>
           ELSE << [clips |-> clips, duration |-> total_duration] >>

(***************************************************************************)
(* render : progress_callback values, as fractions                         *)
(***************************************************************************)
Hundredths(k) == [num |-> k, den |-> 100]

\* a + b, over the larger denominator when it is a multiple of the other
RatAdd(a, b) ==
  IF b.den % a.den = 0
  THEN [num |-> a.num * (b.den \div a.den) + b.num, den |-> b.den]
  ELSE IF a.den % b.den = 0
  THEN [num |-> a.num + b.num * (a.den \div b.den), den |-> a.den]
  ELSE [num |-> a.num * b.den + b.num * a.den, den |-> a.den * b.den]

RatMul(a, b) == [num |-> a.num * b.num, den |-> a.den * b.den]

\* 0.05 + (index / total_messages * 0.75), with 0.05 = 1/20 and 0.75 = 15/20
message_base_progress(i, total_messages) ==
  [num |-> total_messages + 15 * i, den |-> 20 * total_messages]

\* mutant: the share of one message is the share of all of them
message_progress_range_whole(total_messages) == [num |-> 3, den |-> 4]

\* 0.75 / total_messages
message_progress_range(total_messages) == [num |-> 3, den |-> 4 * total_messages]

\* char_index / total_chars * 0.6
typing_progress(char_index, total_chars) ==
  RatMul([num |-> char_index, den |-> total_chars], [num |-> 3, den |-> 5])

\* the values reported inside the typing loop, where char_index % 3 == 0
TypingReports(i, total_messages, total_chars) ==
  [k \in 1..(total_chars \div 3) |->
     RatAdd(message_base_progress(i, total_messages),
            RatMul(typing_progress(3 * k, total_chars),
                   message_progress_range(total_messages)))]

\* message_base_progress + 0.8 * message_progress_range
BranchReport(i, total_messages) ==
  RatAdd(message_base_progress(i, total_messages),
         RatMul([num |-> 4, den |-> 5], message_progress_range(total_messages)))

\* message_base_progress + message_progress_range
PauseReport(i, total_messages) ==
  RatAdd(message_base_progress(i, total_messages), message_progress_range(total_messages))

(***************************************************************************)
(* calculate_bubble_height, draw_bubble : the greedy word wrap             *)
(*                                                                         *)
(* A string is a sequence of characters; textbbox measures a string as the *)
(* sum of the widths of its characters.                                    *)
(***************************************************************************)
MaxTextLen == 6

Chars == {" ", "i", "W"}
Texts == SeqsUpTo(Chars, MaxTextLen)
MaxTextWidths == {3, 5}

CharWidth(c) == IF c = "W" THEN 3 ELSE 1

RECURSIVE TextWidth(_)
\* bbox[2] - bbox[0] of textbbox((0, 0), s, font)
TextWidth(s) == IF s = <<>> THEN 0 ELSE CharWidth(Head(s)) + TextWidth(Tail(s))

RECURSIVE SplitFrom(_, _, _)
\* str.split(): the maximal runs of characters that are not whitespace
SplitFrom(s, word, words) ==
  IF s = <<>> THEN (IF word = <<>> THEN words ELSE Append(words, word))
  ELSE IF Head(s) = " "
       THEN SplitFrom(Tail(s), <<>>, IF word = <<>> THEN words ELSE Append(words, word))
       ELSE SplitFrom(Tail(s), Append(word, Head(s)), words)

Split(s) == SplitFrom(s, <<>>, <<>>)

RECURSIVE LStrip(_)
LStrip(s) == IF s # <<>> /\ Head(s) = " " THEN LStrip(Tail(s)) ELSE s

RECURSIVE RStrip(_)
RStrip(s) ==
  IF s # <<>> /\ s[Len(s)] = " " THEN RStrip(SubSeq(s, 1, Len(s) - 1)) ELSE s

\* str.strip()
Strip(s) == RStrip(LStrip(s))

\* f"{current_line} {word}".strip()
TestLine(current_line, word) == Strip(current_line \o <<" ">> \o word)

\* mutant: a line may exceed the limit by one unit
FitsWithSlack(test_line, max_text_width) == TextWidth(test_line) <= max_text_width + 1

\* if bbox[2] - bbox[0] <= max_text_width
Fits(test_line, max_text_width) == TextWidth(test_line) <= max_text_width

\* mutant: the line is appended whether or not it is empty
FlushAlways(lines, current_line) == Append(lines, current_line)

\* if current_line: lines.append(current_line)
Flush(lines, current_line) ==
  IF current_line # <<>> THEN Append(lines, current_line) ELSE lines

RECURSIVE WrapLoop(_, _, _, _)
\* for word in words: ..., then the flush after the loop
WrapLoop(words, lines, current_line, max_text_width) ==
  IF words = <<>> THEN Flush(lines, current_line)
  ELSE LET word      == Head(words)
           test_line == TestLine(current_line, word)
       IN  IF Fits(test_line, max_text_width)
           THEN WrapLoop(Tail(words), lines, test_line, max_text_width)
           ELSE WrapLoop(Tail(words), Flush(lines, current_line), word, max_text_width)

\* the lines calculate_bubble_height counts
WrappedLines(s, max_text_width) == WrapLoop(Split(s), <<>>, <<>>, max_text_width)

\* the lines draw_bubble draws: if not lines: lines = [text]
DrawnLines(s, max_text_width) ==
  LET lines == WrapLoop(Split(s), <<>>, <<>>, max_text_width)
  IN  IF lines = <<>> THEN << s >> ELSE lines

(***************************************************************************)
(* Initial state: the server has no job, the client holds a request        *)
(***************************************************************************)
NoJob ==
  /\ jobs = << >>
  /\ frames_per_char = 0
  /\ message_timings = << >>
  /\ frames = << >>
  /\ visible_messages = << >>
  /\ frame_count = 0
  /\ index = 0
  /\ audio = << >>
  /\ encoded = 0
  /\ output_path = "None"
  /\ returns = << >>
  /\ reported = << >>
  /\ upload = "none"
  /\ local_file = FALSE

NoScreenshot ==
  /\ screenshot_request = [messages |-> << >>, mode |-> "long", viewport_height |-> 0]
  /\ screenshot_response = << >>

Init ==
  /\ request \in Requests
  /\ pc = "idle"
  /\ NoJob
  /\ wrap_text = << >>
  /\ wrap_width = 0
  /\ wrap_lines = << >>
  /\ wrap_by = "none"
  /\ NoScreenshot
  /\ response = << >>
  /\ bubble = << >>

renderer_vars == << frames_per_char, message_timings >>
render_locals == << frames, visible_messages, frame_count, index >>
render_output == << audio, encoded, output_path, returns >>
server_files  == << upload, local_file >>
job_vars == << request, jobs, pc, renderer_vars, render_locals, render_output,
               reported, server_files >>

(***************************************************************************)
(* main.py                                                                 *)
(***************************************************************************)
\* POST /render
start_render ==
  /\ pc = "idle"
  /\ JobId \notin DOMAIN jobs
  /\ jobs' = (JobId :> [status |-> "queued", progress |-> Hundredths(0),
                        video_url |-> "None", local_path |-> "None",
                        error |-> "None"])
  /\ pc' = "queued"
  /\ UNCHANGED << aside_vars, request, renderer_vars, render_locals, render_output,
                  reported, server_files >>

\* VideoRenderer.__init__(request)
NewRenderer ==
  /\ frames_per_char' = FramesPerChar(request.typing_speed)
  /\ message_timings' = << >>

\* render_video: status = processing, renderer = VideoRenderer(request)
render_video_start ==
  /\ pc = "queued"
  /\ jobs' = [jobs EXCEPT ![JobId].status = "processing"]
  /\ NewRenderer
  /\ pc' = "render"
  /\ UNCHANGED << aside_vars, request, render_locals, render_output, reported,
                  server_files >>

\* update_progress, called by render with each value of a sequence
update_progress(values) ==
  /\ reported' = reported \o values
  /\ jobs' = IF values = << >> THEN jobs
             ELSE [jobs EXCEPT ![JobId].progress = values[Len(values)]]

UploadOutcomes == {"skipped", "uploaded", "upload_failed", "remove_failed"}

\* mutant: a failed upload forgets the local file
UploadStepForgetsFile(job, video_path, outcome) ==
  IF outcome = "uploaded"
  THEN [job EXCEPT !.video_url = SecureUrl, !.local_path = "None"]
  ELSE [job EXCEPT !.video_url = DownloadUrl, !.local_path = "None"]

\* the job entry after `local_path = video_path` and the upload step:
\* not configured; uploaded and removed; upload raised; os.remove raised
UploadStep(job, video_path, outcome) ==
  IF outcome = "uploaded"
  THEN [job EXCEPT !.video_url = SecureUrl, !.local_path = "None"]
  ELSE [job EXCEPT !.video_url = DownloadUrl, !.local_path = video_path]

\* mutant: the job is completed before its video_url is written
render_video_finish_without_url ==
  /\ pc = "returned"
  /\ \E outcome \in UploadOutcomes :
       /\ jobs' = [jobs EXCEPT ![JobId] =
                    [@ EXCEPT !.local_path = output_path, !.status = "completed",
                              !.progress = Hundredths(100)]]
       /\ upload' = outcome
       /\ local_file' = (outcome # "uploaded")
  /\ pc' = "done"
  /\ UNCHANGED << aside_vars, request, renderer_vars, render_locals, render_output,
                  reported >>

\* render_video, after renderer.render returned video_path
render_video_finish ==
  /\ pc = "returned"
  /\ \E outcome \in UploadOutcomes :
       /\ jobs' = [jobs EXCEPT ![JobId] =
                    [UploadStep(@, output_path, outcome) EXCEPT
                       !.status = "completed", !.progress = Hundredths(100)]]
       /\ upload' = outcome
       /\ local_file' = (outcome # "uploaded")
  /\ pc' = "done"
  /\ UNCHANGED << aside_vars, request, renderer_vars, render_locals, render_output,
                  reported >>

\* mutant: the handler records the error and leaves the status
render_video_failed_silently ==
  /\ pc = "raised"
  /\ jobs' = [jobs EXCEPT ![JobId].error = "error"]
  /\ pc' = "done"
  /\ UNCHANGED << aside_vars, request, renderer_vars, render_locals, render_output,
                  reported, server_files >>

\* render_video: except Exception as e
render_video_failed ==
  /\ pc = "raised"
  /\ jobs' = [jobs EXCEPT ![JobId].status = "failed", ![JobId].error = "error"]
  /\ pc' = "done"
  /\ UNCHANGED << aside_vars, request, renderer_vars, render_locals, render_output,
                  reported, server_files >>

\* GET /download/{job_id}: the status code of the response
download_video ==
  IF JobId \notin DOMAIN jobs THEN 404
  ELSE IF jobs[JobId].status # "completed" THEN 400
  ELSE IF jobs[JobId].local_path # "None" /\ local_file THEN 200
  ELSE 404

(***************************************************************************)
(* VideoRenderer.render                                                    *)
(***************************************************************************)
RenderEntry ==
  /\ frames' = << >>
  /\ visible_messages' = << >>
  /\ frame_count' = 0
  /\ index' = 0
  /\ audio' = << >>
  /\ encoded' = 0
  /\ output_path' = "None"
  /\ pc' = "loop"

render_begin ==
  /\ pc = "render"
  /\ RenderEntry
  /\ update_progress(<< Hundredths(2), Hundredths(5) >>)
  /\ UNCHANGED << aside_vars, request, renderer_vars, returns, server_files >>

\* if is_me: type the text, hold, record the cue, show the bubble
self_branch ==
  /\ pc = "loop"
  /\ index < Len(request.messages)
  /\ LET message   == request.messages[index + 1]
         character == get_character(request, message.character_id)
         is_me     == IsMe(character)
         runs      == Append(CharRuns(request, visible_messages, message, frames_per_char),
                             HoldRun(request, visible_messages, message))
         count     == frame_count + RunFrames(runs)
     IN  /\ is_me
         /\ frames' = frames \o runs
         /\ frame_count' = count
         /\ message_timings' = Append(message_timings, Timing(message, count, is_me))
         /\ visible_messages' = Append(visible_messages, Visible(message, character))
         /\ update_progress(
              Append(TypingReports(index, Len(request.messages), message.text.len),
                     BranchReport(index, Len(request.messages))))
  /\ pc' = "pause"
  /\ UNCHANGED << aside_vars, request, frames_per_char, index, render_output,
                  server_files >>

\* else: hold the typing indicator, record the cue, show the bubble
received_branch ==
  /\ pc = "loop"
  /\ index < Len(request.messages)
  /\ LET message   == request.messages[index + 1]
         character == get_character(request, message.character_id)
         is_me     == IsMe(character)
         runs      == << IndicatorRun(request, visible_messages, message, character) >>
         count     == frame_count + RunFrames(runs)
     IN  /\ ~ is_me
         /\ frames' = frames \o runs
         /\ frame_count' = count
         /\ message_timings' = Append(message_timings, Timing(message, count, is_me))
         /\ visible_messages' = Append(visible_messages, Visible(message, character))
         /\ update_progress(<< BranchReport(index, Len(request.messages)) >>)
  /\ pc' = "pause"
  /\ UNCHANGED << aside_vars, request, frames_per_char, index, render_output,
                  server_files >>

\* the reading pause that ends the loop body
reading_pause ==
  /\ pc = "pause"
  /\ LET message == request.messages[index + 1]
         runs    == << PauseRun(request, visible_messages, message) >>
     IN  /\ frames' = frames \o runs
         /\ frame_count' = frame_count + RunFrames(runs)
  /\ update_progress(<< PauseReport(index, Len(request.messages)) >>)
  /\ index' = index + 1
  /\ pc' = "loop"
  /\ UNCHANGED << aside_vars, request, renderer_vars, visible_messages, render_output,
                  server_files >>

\* after the loop: the 60 trailing frames, the frame arrays and the clip
trailing_hold ==
  /\ pc = "loop"
  /\ index = Len(request.messages)
  /\ LET runs == << TrailingRun(request, visible_messages) >>
     IN  /\ frames' = frames \o runs
         /\ frame_count' = frame_count + RunFrames(runs)
  /\ update_progress(<< Hundredths(82), Hundredths(85), Hundredths(88) >>)
  /\ pc' = "audio"
  /\ UNCHANGED << aside_vars, request, renderer_vars, visible_messages, index,
                  render_output, server_files >>

\* if self.settings.enable_sounds: audio = self.create_audio(frame_count / FPS)
compose_audio ==
  /\ pc = "audio"
  /\ IF request.enable_sounds
     THEN /\ \E send_ok \in BOOLEAN, receive_ok \in BOOLEAN :
               audio' = create_audio(message_timings, FrameTime(frame_count),
                                     send_ok, receive_ok)
          /\ update_progress(<< Hundredths(95) >>)
     ELSE /\ audio' = audio
          /\ update_progress(<< >>)
  /\ pc' = "encode"
  /\ UNCHANGED << aside_vars, request, renderer_vars, render_locals, encoded,
                  output_path, returns, server_files >>

Returned == [frame_count |-> frame_count, cues |-> message_timings]

\* the exception unwinds render: its locals are gone
Unwind ==
  /\ pc' = "raised"
  /\ frames' = << >>
  /\ visible_messages' = << >>
  /\ frame_count' = 0
  /\ index' = 0
  /\ audio' = << >>

\* clip.write_videofile(...) writes every frame, or raises
write_videofile ==
  /\ pc = "encode"
  /\ \/ /\ encoded' = RunFrames(frames)
        /\ output_path' = LocalPath
        /\ returns' = Append(returns, Returned)
        /\ local_file' = TRUE
        /\ update_progress(<< Hundredths(100) >>)
        /\ pc' = "returned"
        /\ UNCHANGED << render_locals, audio >>
     \/ \* a failed encoding may leave a partial file behind
        /\ Unwind
        /\ \E partial \in BOOLEAN : local_file' = partial
        /\ UNCHANGED << encoded, output_path, returns, jobs, reported >>
  /\ UNCHANGED << aside_vars, request, renderer_vars, upload >>

\* an exception inside render before the encoding: a frame that cannot be
\* drawn, a colour that does not parse, memory
render_raises ==
  /\ pc \in {"render", "loop", "pause", "audio"}
  /\ Unwind
  /\ UNCHANGED << aside_vars, request, jobs, renderer_vars, encoded, output_path,
                  returns, reported, server_files >>

Worker ==
  \/ render_video_start
  \/ render_begin
  \/ self_branch
  \/ received_branch
  \/ reading_pause
  \/ trailing_hold
  \/ compose_audio
  \/ write_videofile
  \/ render_raises
  \/ render_video_finish
  \/ render_video_failed

Next ==
  \/ start_render
  \/ render_video_start
  \/ render_begin
  \/ self_branch
  \/ received_branch
  \/ reading_pause
  \/ trailing_hold
  \/ compose_audio
  \/ write_videofile
  \/ render_raises
  \/ render_video_finish
  \/ render_video_failed

Spec == Init /\ [][Next]_vars

\* The background task runs to its end once the response has been sent.
\* Whether it ends does not depend on the geometry or the typing speed:
\* the requests of one format, one speed, the keyboard shown and three
\* characters are taken.
LiveRequests ==
  { r \in Requests :
      /\ r.format = "tiktok" /\ r.typing_speed = "normal" /\ r.show_keyboard
      /\ Len(r.characters) = 3 }

InitLive == Init /\ request \in LiveRequests

SpecLive == InitLive /\ [][Next]_vars /\ WF_vars(Worker)

(***************************************************************************)
(* The server with its clients: status and download requests arrive at any *)
(* time while the job is queued, rendered or finished.  The handlers and    *)
(* render_video are coroutines of one event loop: render_video yields only  *)
(* at `await loop.run_in_executor`, so a request is answered before the     *)
(* job starts, while render runs in its thread, or after render_video has   *)
(* finished, never between two lines of its last block.                     *)
(***************************************************************************)
UnknownId == "job-2"
JobIds == { JobId, UnknownId }

ServerRequests == { r \in LiveRequests : Len(r.messages) <= 1 }

InitServer ==
  /\ request \in ServerRequests
  /\ pc = "idle"
  /\ NoJob
  /\ wrap_text = << >>
  /\ wrap_width = 0
  /\ wrap_lines = << >>
  /\ wrap_by = "none"
  /\ NoScreenshot
  /\ response = << >>
  /\ bubble = << >>

\* JobResponse(job_id, status, progress, video_url, error)
JobResponse(job_id, job) ==
  [endpoint |-> "status", job_id |-> job_id, code |-> 200, status |-> job.status,
   progress |-> job.progress, video_url |-> job.video_url, error |-> job.error]

\* raise HTTPException(status_code=404, detail="Job not found")
NotFound(endpoint, job_id) == [endpoint |-> endpoint, job_id |-> job_id, code |-> 404]

\* mutant: the lookup of an unknown id leaves an entry behind
get_status_creating(job_id) ==
  /\ response' = << IF job_id \notin DOMAIN jobs
                    THEN NotFound("status", job_id)
                    ELSE JobResponse(job_id, jobs[job_id]) >>
  /\ jobs' = IF job_id \notin DOMAIN jobs
             THEN [id \in DOMAIN jobs \cup {job_id} |->
                     IF id = job_id
                     THEN [status |-> "queued", progress |-> Hundredths(0),
                           video_url |-> "None", local_path |-> "None", error |-> "None"]
                     ELSE jobs[id]]
             ELSE jobs
  /\ UNCHANGED << wrap_vars, screenshot_vars, bubble, request, pc, renderer_vars,
                  render_locals, render_output, reported, server_files >>

\* GET /status/{job_id}
get_status(job_id) ==
  /\ response' = << IF job_id \notin DOMAIN jobs
                    THEN NotFound("status", job_id)
                    ELSE JobResponse(job_id, jobs[job_id]) >>
  /\ UNCHANGED << wrap_vars, screenshot_vars, bubble, job_vars >>

\* GET /download/{job_id}, for the id the client was given
download ==
  /\ response' = << [endpoint |-> "download", job_id |-> JobId, code |-> download_video] >>
  /\ UNCHANGED << wrap_vars, screenshot_vars, bubble, job_vars >>

Client == (\E job_id \in JobIds : get_status(job_id)) \/ download

NextServer == Next \/ Client

SpecServer == InitServer /\ [][NextServer]_vars

(***************************************************************************)
(* The typing indicator setting: the requests of the fair specification,   *)
(* with ExportSettings.show_typing_indicator on and off                    *)
(***************************************************************************)
IndicatorRequests ==
  { [r EXCEPT !.show_typing_indicator = b] : r \in LiveRequests, b \in BOOLEAN }

InitIndicator ==
  /\ request \in IndicatorRequests
  /\ pc = "idle"
  /\ NoJob
  /\ wrap_text = << >>
  /\ wrap_width = 0
  /\ wrap_lines = << >>
  /\ wrap_by = "none"
  /\ NoScreenshot
  /\ response = << >>
  /\ bubble = << >>

SpecIndicator == InitIndicator /\ [][Next]_vars

(***************************************************************************)
(* Long conversations: the scroll window needs more messages than the      *)
(* requests above hold before it leaves the top.  These requests are 1:1   *)
(* chats in the tiktok format without keyboard: any opening message, then  *)
(* received messages of one or three lines.                                *)
(***************************************************************************)
MaxScrollMsgs == 8

Three == [len |-> 60, nlines |-> 3]

ScrollBodies ==
  { [text |-> Short, character_id |-> "other"],
    [text |-> Three, character_id |-> "other"] }

ScrollOpenings == ScrollBodies \cup { [text |-> Short, character_id |-> "me"] }

ScrollRequests ==
  { [messages |-> WithIds(<< o >> \o b), characters |-> << Me, Other >>,
     is_group_chat |-> FALSE, format |-> "tiktok", typing_speed |-> "normal",
     show_keyboard |-> FALSE, show_typing_indicator |-> TRUE,
     enable_sounds |-> FALSE] :
      o \in ScrollOpenings, b \in SeqsUpTo(ScrollBodies, MaxScrollMsgs - 1) }

InitScroll ==
  /\ request \in ScrollRequests
  /\ pc = "idle"
  /\ NoJob
  /\ wrap_text = << >>
  /\ wrap_width = 0
  /\ wrap_lines = << >>
  /\ wrap_by = "none"
  /\ NoScreenshot
  /\ response = << >>
  /\ bubble = << >>

SpecScroll == InitScroll /\ [][Next]_vars

(***************************************************************************)
(* The renderer used as a library: render called again, on the same        *)
(* instance or on a new one built from the same request                    *)
(***************************************************************************)
MaxRenders == 2

render_again ==
  /\ pc = "returned"
  /\ Len(returns) < MaxRenders
  /\ RenderEntry
  /\ UNCHANGED << aside_vars, request, jobs, renderer_vars, returns, reported,
                  server_files >>

render_fresh ==
  /\ pc = "returned"
  /\ Len(returns) < MaxRenders
  /\ NewRenderer
  /\ RenderEntry
  /\ UNCHANGED << aside_vars, request, jobs, returns, reported, server_files >>

NextReuse == Next \/ render_again \/ render_fresh

SpecReuse == Init /\ [][NextReuse]_vars

(***************************************************************************)
(* The word wrap on its own: a text and a width are drawn, then wrapped by *)
(* calculate_bubble_height or by draw_bubble                               *)
(***************************************************************************)
NoRequest ==
  [messages |-> << >>, characters |-> << Me, Other >>, is_group_chat |-> FALSE,
   format |-> "tiktok", typing_speed |-> "normal", show_keyboard |-> TRUE,
   show_typing_indicator |-> TRUE, enable_sounds |-> FALSE]

InitWrap ==
  /\ request = NoRequest
  /\ pc = "wrap"
  /\ NoJob
  /\ wrap_text \in Texts
  /\ wrap_width \in MaxTextWidths
  /\ wrap_lines = << >>
  /\ wrap_by = "none"
  /\ NoScreenshot
  /\ response = << >>
  /\ bubble = << >>

wrap_calculate_bubble_height ==
  /\ wrap_by = "none"
  /\ wrap_lines' = WrappedLines(wrap_text, wrap_width)
  /\ wrap_by' = "calculate_bubble_height"
  /\ UNCHANGED << job_vars, screenshot_vars, response, bubble, wrap_text, wrap_width >>

wrap_draw_bubble ==
  /\ wrap_by = "none"
  /\ wrap_lines' = DrawnLines(wrap_text, wrap_width)
  /\ wrap_by' = "draw_bubble"
  /\ UNCHANGED << job_vars, screenshot_vars, response, bubble, wrap_text, wrap_width >>

NextWrap == wrap_calculate_bubble_height \/ wrap_draw_bubble

SpecWrap == InitWrap /\ [][NextWrap]_vars

(***************************************************************************)
(* One bubble on its own: a text is measured by calculate_bubble_height    *)
(* and then drawn by draw_bubble, at the top of the message area or at the *)
(* last place where the height bound of the scroll window lets it be, with *)
(* or without the typing indicator below it                                *)
(***************************************************************************)
MaxBubbleLen == 4

BubbleTexts == SeqsUpTo(Chars, MaxBubbleLen)

BubbleChats ==
  { [characters |-> << Me, Other >>,        is_group_chat |-> FALSE],
    [characters |-> << Me, Other, Third >>, is_group_chat |-> FALSE] }

BubbleRequests ==
  { [messages |-> << [id |-> 1, text |-> Short, character_id |-> sender] >>,
     characters |-> c.characters, is_group_chat |-> c.is_group_chat,
     format |-> f, typing_speed |-> "normal", show_keyboard |-> TRUE,
     show_typing_indicator |-> TRUE, enable_sounds |-> FALSE] :
      sender \in {"me", "other"}, c \in BubbleChats, f \in DOMAIN RESOLUTIONS }

InitBubble ==
  /\ request \in BubbleRequests
  /\ pc = "bubble"
  /\ NoJob
  /\ wrap_text \in BubbleTexts
  /\ wrap_width \in MaxTextWidths
  /\ wrap_lines = << >>
  /\ wrap_by = "none"
  /\ NoScreenshot
  /\ response = << >>
  /\ bubble = << >>

\* mutant: the gap below a bubble is 12 points
draw_bubble_wide_gap(req, lines, is_me, character, y_offset) ==
  LET line_height   == Scaled(req, 22)
      text_height   == Len(lines) * line_height
      bubble_height == text_height + Scaled(req, 14)
      actual_y      == IF is_group_chat(req) /\ ~ is_me /\ character # <<>>
                       THEN y_offset + Scaled(req, 18)
                       ELSE y_offset
  IN  [lines |-> Len(lines), top |-> actual_y, bottom |-> actual_y + bubble_height,
       y_offset |-> actual_y + bubble_height + Scaled(req, 12)]

\* draw_bubble: the lines drawn, the top and bottom of the bubble, and the
\* y_offset returned for what is drawn next
draw_bubble(req, lines, is_me, character, y_offset) ==
  LET line_height   == Scaled(req, 22)
      text_height   == Len(lines) * line_height
      bubble_height == text_height + Scaled(req, 14)
      actual_y      == IF is_group_chat(req) /\ ~ is_me /\ character # <<>>
                       THEN y_offset + Scaled(req, 18)
                       ELSE y_offset
  IN  [lines |-> Len(lines), top |-> actual_y, bottom |-> actual_y + bubble_height,
       y_offset |-> actual_y + bubble_height + Scaled(req, 6)]

\* draw_typing_indicator: top and bottom of the indicator bubble
draw_typing_indicator(req, y_offset) ==
  [top |-> y_offset, bottom |-> y_offset + Scaled(req, 36)]

BubbleCharacter == get_character(request, request.messages[1].character_id)

\* height = self.calculate_bubble_height(text, is_me, character)
bubble_calculate ==
  /\ pc = "bubble"
  /\ bubble = << >>
  /\ LET lines == WrappedLines(wrap_text, wrap_width)
     IN  bubble' =
           << [stage  |-> "measured",
               lines  |-> Max(Len(lines), 1),
               height |-> calculate_bubble_height(request,
                            [len |-> Len(wrap_text), nlines |-> Len(lines)],
                            IsMe(BubbleCharacter), BubbleCharacter)] >>
  /\ UNCHANGED << job_vars, wrap_vars, screenshot_vars, response >>

\* y_offset = self.draw_bubble(...); then the typing indicator, if shown
bubble_draw(at_top, show_typing_indicator) ==
  /\ pc = "bubble"
  /\ bubble # << >>
  /\ bubble[1].stage = "measured"
  /\ LET allowance == typing_indicator_height(request, show_typing_indicator)
         y_offset  == IF at_top THEN message_area_top(request)
                      ELSE message_area_bottom(request) - bubble[1].height - allowance
         drawn     == draw_bubble(request, DrawnLines(wrap_text, wrap_width),
                                  IsMe(BubbleCharacter), BubbleCharacter, y_offset)
     IN  bubble' =
           << [stage  |-> "drawn",
               lines  |-> bubble[1].lines,
               height |-> bubble[1].height,
               y_offset |-> y_offset,
               allowance |-> allowance,
               drawn  |-> drawn,
               indicator |-> IF show_typing_indicator /\ BubbleCharacter # <<>>
                             THEN << draw_typing_indicator(request, drawn.y_offset) >>
                             ELSE << >>] >>
  /\ UNCHANGED << job_vars, wrap_vars, screenshot_vars, response >>

NextBubble ==
  \/ bubble_calculate
  \/ \E at_top \in BOOLEAN, show_typing_indicator \in BOOLEAN :
       bubble_draw(at_top, show_typing_indicator)

SpecBubble == InitBubble /\ [][NextBubble]_vars

(***************************************************************************)
(* The screenshot endpoint on its own.  main.py holds render_screenshot;   *)
(* ScreenshotRenderer is imported from renderer.py but is not part of the  *)
(* sources at hand, so its page split follows the written description of   *)
(* the paginated mode: messages are taken in order, their heights are      *)
(* accumulated, and a new page is started when adding the next message     *)
(* would exceed the viewport height; a message is never split.  A message  *)
(* is the record of its id and of the height of its bubble; an image is    *)
(* the sequence of the messages drawn in it.                               *)
(***************************************************************************)
MaxShotMsgs == 4

ShotHeights == {1, 2, 3, 5}
ViewportHeights == {3, 4}
ScreenshotModes == {"long", "paginated"}

ShotMessages(heights) ==
  [i \in 1..Len(heights) |-> [id |-> i, height |-> heights[i]]]

ScreenshotRequests ==
  { [messages |-> ShotMessages(h), mode |-> m, viewport_height |-> v] :
      h \in SeqsUpTo(ShotHeights, MaxShotMsgs), m \in ScreenshotModes,
      v \in ViewportHeights }

\* a page break taken even when the page holds nothing yet
PageBreakUnguarded(current_page, current_height, height, viewport_height) ==
  current_height + height > viewport_height

\* the next message would exceed the viewport and the page holds something
PageBreak(current_page, current_height, height, viewport_height) ==
  current_page # << >> /\ current_height + height > viewport_height

\* the page in progress is dropped at the end of the list
ClosePageNever(pages, current_page) ==
  pages

ClosePage(pages, current_page) ==
  IF current_page = << >> THEN pages ELSE Append(pages, current_page)

\* the page in progress is forgotten when a new one is started
NextPageForgetful(pages, current_page) ==
  pages

NextPage(pages, current_page) ==
  Append(pages, current_page)

RECURSIVE PageLoop(_, _, _, _, _)
PageLoop(messages, pages, current_page, current_height, viewport_height) ==
  IF messages = << >>
  THEN ClosePage(pages, current_page)
  ELSE LET message == Head(messages)
       IN  IF PageBreak(current_page, current_height, message.height, viewport_height)
           THEN PageLoop(Tail(messages), NextPage(pages, current_page),
                         << message >>, message.height, viewport_height)
           ELSE PageLoop(Tail(messages), pages, Append(current_page, message),
                         current_height + message.height, viewport_height)

render_paginated(req) ==
  PageLoop(req.messages, << >>, << >>, 0, req.viewport_height)

\* the long mode: one image that holds every message
render_long(req) == req.messages

InitScreenshot ==
  /\ request = NoRequest
  /\ pc = "screenshot"
  /\ NoJob
  /\ wrap_text = << >>
  /\ wrap_width = 0
  /\ wrap_lines = << >>
  /\ wrap_by = "none"
  /\ screenshot_request \in ScreenshotRequests
  /\ screenshot_response = << >>
  /\ response = << >>
  /\ bubble = << >>

render_screenshot_paginated ==
  /\ pc = "screenshot"
  /\ screenshot_response = << >>
  /\ screenshot_request.mode = "paginated"
  /\ LET images == render_paginated(screenshot_request)
     IN  screenshot_response' =
           << [success |-> TRUE, images |-> images, page_count |-> Len(images)] >>
  /\ UNCHANGED << job_vars, wrap_vars, response, bubble, screenshot_request >>

render_screenshot_long ==
  /\ pc = "screenshot"
  /\ screenshot_response = << >>
  /\ screenshot_request.mode # "paginated"
  /\ screenshot_response' =
       << [success |-> TRUE, images |-> << render_long(screenshot_request) >>,
           page_count |-> 1] >>
  /\ UNCHANGED << job_vars, wrap_vars, response, bubble, screenshot_request >>

NextScreenshot == render_screenshot_paginated \/ render_screenshot_long

SpecScreenshot == InitScreenshot /\ [][NextScreenshot]_vars

(***************************************************************************)
(* Vocabulary of the properties                                            *)
(***************************************************************************)
Messages == request.messages
CharacterOf(message) == get_character(request, message.character_id)
SelfMessage(message) == IsMe(CharacterOf(message))

\* the entry of visible_messages a message id stands for
VisibleOf(id) == Visible(Messages[id], CharacterOf(Messages[id]))

HeightsOf(ids) == MessageHeights(request, [i \in 1..Len(ids) |-> VisibleOf(ids[i])])

IndicatorHeight(f) == typing_indicator_height(request, f.show_typing_indicator)

\* total content height of a frame against the viewport
ContentFits(f) ==
  SumSeq(HeightsOf(f.visible)) + IndicatorHeight(f) <= available_height(request)

DrawnIsSuffix(f) ==
  /\ Len(f.drawn) <= Len(f.visible)
  /\ f.drawn = SubSeq(f.visible, Len(f.visible) - Len(f.drawn) + 1, Len(f.visible))
  /\ f.visible # << >> => f.drawn # << >>

\* number of frames emitted before run k
FramesBefore(k) == RunFrames(SubSeq(frames, 1, k - 1))

\* runs of the animation of message i (typing and hold, or indicator)
AnimRuns(i) == IF SelfMessage(Messages[i]) THEN Messages[i].text.len + 1 ELSE 1

RECURSIVE RunsBefore(_)
\* number of runs emitted before message i starts
RunsBefore(i) == IF i <= 1 THEN 0 ELSE RunsBefore(i - 1) + AnimRuns(i - 1) + 1

\* frame count when message i starts, and when its animation ends
FirstFrame(i) == FramesBefore(RunsBefore(i) + 1)
AnimationEnd(i) == FramesBefore(RunsBefore(i) + AnimRuns(i) + 1)

\* render is running or has returned: its frames are at hand
Rendering == pc \in {"loop", "pause", "audio", "encode", "returned"}

\* every frame has been emitted
Rendered == pc \in {"audio", "encode", "returned"}

\* the scroll windows of the frames rendered so far: what render_frame was
\* given to lay out and what it drew
Windows ==
  { [visible |-> frames[k].frame.visible,
     show_typing_indicator |-> frames[k].frame.show_typing_indicator,
     start_index |-> frames[k].frame.start_index,
     drawn |-> frames[k].frame.drawn] : k \in 1..Len(frames) }

(***************************************************************************)
(* C1: in every frame whose content exceeds the viewport, the bubbles      *)
(* drawn are a suffix of the visible list ending at the latest message,    *)
(* and their heights plus the indicator fit the available height.          *)
(***************************************************************************)
C1_OverflowWindowFits ==
  \A f \in Windows :
    ~ ContentFits(f) =>
       /\ DrawnIsSuffix(f)
       /\ SumSeq(HeightsOf(f.drawn)) + IndicatorHeight(f) <= available_height(request)

(***************************************************************************)
(* C10: in every frame whose content fits the viewport, drawing starts at  *)
(* the first message and every visible message is drawn, in order.         *)
(***************************************************************************)
C10_FittingContentFromTop ==
  \A f \in Windows :
    ContentFits(f) => f.start_index = 0 /\ f.drawn = f.visible

C10_Witness ==
  /\ \E f \in Windows :
       ContentFits(f) /\ ~ f.show_typing_indicator /\ f.drawn = <<1, 2>>
  /\ \E f \in Windows :
       ContentFits(f) /\ f.show_typing_indicator /\ f.drawn = <<1>>

(***************************************************************************)
(* C3: frames_per_char is max(1, round(seconds_per_char * 30)): 6 frames   *)
(* for slow, 4 for normal, 2 for fast.                                     *)
(***************************************************************************)
RoundHundredths(x) == (x + 50) \div 100

C3_FramesPerCharRounded ==
  pc \notin {"idle", "queued"} =>
    /\ frames_per_char = Max(1, RoundHundredths(TYPING_SPEEDS[request.typing_speed] * FPS))
    /\ frames_per_char = [slow |-> 6, normal |-> 4, fast |-> 2][request.typing_speed]

(***************************************************************************)
(* C4: from the end of the previous reading pause to the start of its own  *)
(* reading pause a self message of length L emits L * frames_per_char + 10 *)
(* frames: per character one group of frames_per_char equal frames, then   *)
(* one group of 10.                                                        *)
(***************************************************************************)
C4_SelfMessageFrames ==
  [][ (pc = "loop" /\ pc' = "pause" /\ SelfMessage(Messages[index + 1])) =>
        LET L     == Messages[index + 1].text.len
            added == SubSeq(frames', Len(frames) + 1, Len(frames'))
        IN  /\ SubSeq(frames', 1, Len(frames)) = frames
            /\ frame_count' - frame_count = L * frames_per_char + 10
            /\ RunFrames(added) = L * frames_per_char + 10
            /\ Len(added) = L + 1
            /\ \A k \in 1..L : added[k].n = frames_per_char
            /\ added[L + 1].n = 10 ]_vars

C4_Witness ==
  /\ pc = "pause"
  /\ index = 1
  /\ SelfMessage(Messages[2])
  /\ Messages[2].text.len = 5
  /\ frame_count > 5 * frames_per_char + 10

(***************************************************************************)
(* C2 as claimed: the cue of a self message of length L is recorded at the *)
(* start of its 10-frame hold, L * frames_per_char frames after its first  *)
(* typing frame; the cue of a received message where its indicator hold    *)
(* ends; the time is that frame count over 30.                             *)
(***************************************************************************)
C2_SelfCueAtHoldStart ==
  Rendering =>
    \A i \in 1..Len(message_timings) :
      message_timings[i].time =
        IF SelfMessage(Messages[i])
        THEN [num |-> FirstFrame(i) + Messages[i].text.len * frames_per_char, den |-> 30]
        ELSE [num |-> AnimationEnd(i), den |-> 30]

(***************************************************************************)
(* C2 amended: the cue of a self message of length L is recorded at the    *)
(* end of its 10-frame hold, L * frames_per_char + 10 frames after its     *)
(* first typing frame; the cue of a received message where its indicator   *)
(* hold ends; the time is that frame count over 30.                        *)
(***************************************************************************)
C2_SelfCueAtHoldEnd ==
  Rendering =>
    \A i \in 1..Len(message_timings) :
      /\ message_timings[i].time = [num |-> AnimationEnd(i), den |-> 30]
      /\ SelfMessage(Messages[i]) =>
           AnimationEnd(i) = FirstFrame(i) + Messages[i].text.len * frames_per_char + 10
      /\ ~ SelfMessage(Messages[i]) =>
           AnimationEnd(i) = FirstFrame(i) + TypingFrames(Messages[i].text)

C2_Witness ==
  /\ pc = "pause"
  /\ Len(message_timings) = 2
  /\ ~ message_timings[1].is_me
  /\ message_timings[2].is_me
  /\ Messages[2].text.len = 5
  /\ message_timings[2].time.num = message_timings[1].time.num
                                     + PauseFrames(Messages[1].text)
                                     + 5 * frames_per_char + 10

(***************************************************************************)
(* C8: after a render the cue times are non-decreasing in list order, and  *)
(* each is N/30 with N the index of the first frame that draws the cue's   *)
(* message as a bubble.                                                    *)
(***************************************************************************)
DrawnIn(id, k) == \E j \in 1..Len(frames[k].frame.drawn) : frames[k].frame.drawn[j] = id

FirstDrawnRun(id) ==
  LET hits == { k \in 1..Len(frames) : DrawnIn(id, k) }
  IN  IF hits = {} THEN 0 ELSE CHOOSE k \in hits : \A h \in hits : k <= h

C8_CueAtFirstBubbleFrame ==
  Rendered =>
    \A i \in 1..Len(message_timings) :
      LET cue == message_timings[i]
          k   == FirstDrawnRun(cue.message_id)
      IN  /\ k > 0
          /\ cue.time = [num |-> FramesBefore(k), den |-> 30]
          /\ i > 1 => message_timings[i - 1].time.num * cue.time.den
                        <= cue.time.num * message_timings[i - 1].time.den

C8_Witness ==
  /\ pc = "returned"
  /\ Len(message_timings) = 2
  /\ message_timings[1].is_me
  /\ ~ message_timings[2].is_me
  /\ message_timings[1].time.num > 0
  /\ message_timings[1].time.num < message_timings[2].time.num
  /\ FirstDrawnRun(2) > FirstDrawnRun(1)

(***************************************************************************)
(* C9: a render of n messages on a new renderer records n cues, the i-th   *)
(* for the i-th message, tagged send iff the sender of that message is the *)
(* self character and receive otherwise; the composer schedules the send   *)
(* asset for send cues and the receive asset for receive cues.             *)
(***************************************************************************)
SenderIsSelf(message) ==
  \E i \in 1..Len(request.characters) :
    request.characters[i].id = message.character_id /\ request.characters[i].is_me

C9_OneTaggedCuePerMessage ==
  Rendered =>
    /\ Len(message_timings) = Len(Messages)
    /\ \A i \in 1..Len(message_timings) :
         /\ message_timings[i].message_id = Messages[i].id
         /\ message_timings[i].is_me = SenderIsSelf(Messages[i])
    /\ \A send_ok \in BOOLEAN, receive_ok \in BOOLEAN :
         LET clips == ScheduledClips(message_timings, send_ok, receive_ok)
         IN  \A j \in 1..Len(clips) :
               \E i \in 1..Len(message_timings) :
                 /\ clips[j].start = message_timings[i].time
                 /\ clips[j].sound =
                      IF SenderIsSelf(Messages[i]) THEN "send.mp3" ELSE "receive.mp3"

(***************************************************************************)
(* C6: with sound enabled every cue yields one scheduled clip starting at  *)
(* the cue's time, whether or not the asset files exist.                   *)
(***************************************************************************)
TrackClips == IF audio = << >> THEN << >> ELSE audio[1].clips

C6_OneClipPerCue ==
  (pc \in {"encode", "returned"} /\ request.enable_sounds) =>
    /\ Len(TrackClips) = Len(message_timings)
    /\ \A i \in 1..Len(TrackClips) : TrackClips[i].start = message_timings[i].time

(***************************************************************************)
(* C5: a job whose conversation is empty or has a message whose            *)
(* character_id resolves to no character ends failed, with an error, no    *)
(* frame encoded and neither path nor URL recorded.                        *)
(***************************************************************************)
InvalidConversation ==
  \/ Messages = << >>
  \/ \E i \in 1..Len(Messages) : CharacterOf(Messages[i]) = << >>

C5_InvalidConversationFails ==
  (InvalidConversation /\ JobId \in DOMAIN jobs) =>
    /\ encoded = 0
    /\ jobs[JobId].local_path = "None"
    /\ jobs[JobId].video_url = "None"
    /\ pc = "done" => jobs[JobId].status = "failed" /\ jobs[JobId].error # "None"

(***************************************************************************)
(* C7: two runs of render on the same input leave the same total frame     *)
(* count and the same cue list, on two renderer instances and on one.      *)
(***************************************************************************)
C7_SameInputSameResult ==
  \A i \in 1..Len(returns), j \in 1..Len(returns) : returns[i] = returns[j]

(***************************************************************************)
(* Vocabulary of the frame counts                                          *)
(***************************************************************************)
InSeq(x, s) == \E j \in 1..Len(s) : s[j] = x

\* the run that holds the reading pause of message i
PauseRunIndex(i) == RunsBefore(i) + AnimRuns(i) + 1

\* floor(30 * clamp(n / 20, 1.5, 2.5))
HoldFramesClaimed(n) ==
  IF 2 * n < 3 * 20 THEN 45 ELSE IF 2 * n > 5 * 20 THEN 75 ELSE (30 * n) \div 20

\* floor(30 * clamp(n / 25, 1.5, 3.0))
PauseFramesClaimed(n) ==
  IF 2 * n < 3 * 25 THEN 45 ELSE IF n > 3 * 25 THEN 90 ELSE (30 * n) \div 25

\* frames of the animation of message i: typing and reveal hold, or indicator
AnimationFramesClaimed(i) ==
  IF SelfMessage(Messages[i])
  THEN Messages[i].text.len * frames_per_char + 10
  ELSE HoldFramesClaimed(Messages[i].text.len)

RECURSIVE MessageFramesUpTo(_)
\* animation and reading-pause frames of messages 1..k
MessageFramesUpTo(k) ==
  IF k = 0 THEN 0
  ELSE MessageFramesUpTo(k - 1) + AnimationFramesClaimed(k)
         + PauseFramesClaimed(Messages[k].text.len)

(***************************************************************************)
(* C13: a received message of length n is animated by one group of         *)
(* floor(30 * clamp(n/20, 1.5, 2.5)) frames, between 45 and 75, each       *)
(* drawing the typing indicator and not the message, with no keyboard      *)
(* draft; the frame that follows draws the message as a bubble.            *)
(***************************************************************************)
C13_ReceivedIndicatorHold ==
  Rendering =>
    \A i \in 1..Len(message_timings) :
      ~ SelfMessage(Messages[i]) =>
        LET k   == RunsBefore(i) + 1
            run == frames[k]
        IN  /\ k <= Len(frames)
            /\ run.n = HoldFramesClaimed(Messages[i].text.len)
            /\ run.n >= 45 /\ run.n <= 75
            /\ run.frame.show_typing_indicator /\ run.frame.indicator_drawn
            /\ ~ InSeq(i, run.frame.visible) /\ ~ InSeq(i, run.frame.drawn)
            /\ run.frame.keyboard_typing_text = -1
            /\ AnimationEnd(i) = FirstFrame(i) + run.n
            /\ k + 1 <= Len(frames) =>
                 /\ InSeq(i, frames[k + 1].frame.drawn)
                 /\ ~ frames[k + 1].frame.indicator_drawn
                 /\ frames[k + 1].frame.keyboard_typing_text = -1

C13_Witness ==
  /\ pc = "loop"
  /\ index = 2
  /\ ~ SelfMessage(Messages[1]) /\ Messages[1].text.len = 40
  /\ ~ SelfMessage(Messages[2]) /\ Messages[2].text.len = 110
  /\ frames[1].n = 60 /\ frames[1].frame.indicator_drawn
  /\ InSeq(1, frames[2].frame.drawn)
  /\ frames[3].n = 75 /\ ~ InSeq(2, frames[3].frame.visible)
  /\ InSeq(2, frames[4].frame.drawn)

(***************************************************************************)
(* C14: the animation of every message, self or received, of length n is   *)
(* followed by one group of floor(30 * clamp(n/25, 1.5, 3.0)) frames,      *)
(* between 45 and 90, each drawing the message as a bubble, with no        *)
(* typing indicator and no keyboard draft.                                 *)
(***************************************************************************)
C14_ReadingPause ==
  Rendering =>
    /\ index = Len(message_timings) - (IF pc = "pause" THEN 1 ELSE 0)
    /\ \A i \in 1..index :
         LET run == frames[PauseRunIndex(i)]
         IN  /\ PauseRunIndex(i) <= Len(frames)
             /\ run.n = PauseFramesClaimed(Messages[i].text.len)
             /\ run.n >= 45 /\ run.n <= 90
             /\ InSeq(i, run.frame.drawn)
             /\ ~ run.frame.show_typing_indicator /\ ~ run.frame.indicator_drawn
             /\ run.frame.keyboard_typing_text = -1
             /\ run.frame.highlighted_key = 0

C14_Witness ==
  /\ pc = "audio"
  /\ index = 2
  /\ SelfMessage(Messages[1]) /\ Messages[1].text.len = 5
  /\ ~ SelfMessage(Messages[2]) /\ Messages[2].text.len = 40
  /\ frames[PauseRunIndex(1)].n = 45
  /\ frames[PauseRunIndex(2)].n = 48
  /\ frames[PauseRunIndex(2)].frame.drawn = <<1, 2>>

C16_NameRowAllowance ==
  \A j \in 1..Len(visible_messages) :
    LET v        == visible_messages[j]
        received == ~ IsMe(v.character)
        group    == request.is_group_chat \/ Len(request.characters) > 2
        height   == MessageHeights(request, visible_messages)[j]
        as_self  == calculate_bubble_height(request, v.text, TRUE, << Me >>)
    IN  /\ Scaled(request, 18) > 0
        /\ height = as_self + (IF received /\ group THEN Scaled(request, 18) ELSE 0)

C16_Witness ==
  /\ pc = "returned"
  /\ Len(request.characters) = 3 /\ ~ request.is_group_chat
  /\ request.format = "tiktok"
  /\ Len(visible_messages) = 2
  /\ visible_messages[1].character = << Me >>
  /\ visible_messages[2].character = << Third >>
  /\ visible_messages[1].text = visible_messages[2].text
  /\ MessageHeights(request, visible_messages)[2]
       = MessageHeights(request, visible_messages)[1] + Scaled(request, 18)

(***************************************************************************)
(* C20: when the frames go to the encoder, a request with sound enabled    *)
(* and at least one message has an audio track of duration frame_count/30, *)
(* whichever sound assets exist; a request with sound disabled has none.   *)
(***************************************************************************)
C20_AudioTrackWhenSoundEnabled ==
  pc \in {"encode", "returned"} =>
    /\ (request.enable_sounds /\ Len(Messages) >= 1) =>
         /\ audio # << >>
         /\ audio[1].duration = [num |-> frame_count, den |-> 30]
    /\ ~ request.enable_sounds => audio = << >>

(***************************************************************************)
(* Vocabulary of the word wrap                                             *)
(***************************************************************************)
RECURSIVE Join(_)
\* " ".join(lines)
Join(lines) ==
  IF lines = << >> THEN << >>
  ELSE IF Len(lines) = 1 THEN lines[1]
  ELSE lines[1] \o <<" ">> \o Join(Tail(lines))

Wrapped == wrap_by # "none"

(***************************************************************************)
(* C11 as claimed: every line of the wrap is at most max_text_width wide.  *)
(***************************************************************************)
C11_EveryLineFits ==
  Wrapped => \A i \in 1..Len(wrap_lines) : TextWidth(wrap_lines[i]) <= wrap_width

(***************************************************************************)
(* C11 amended: every line of the wrap that holds two or more words is at  *)
(* most max_text_width wide; a line holding one word is that word, and is  *)
(* wider than max_text_width exactly when the word is; a word wider than   *)
(* max_text_width has a line of its own.                                   *)
(***************************************************************************)
C11_MultiWordLinesFit ==
  Wrapped =>
    \A i \in 1..Len(wrap_lines) :
      LET words == Split(wrap_lines[i])
      IN  /\ Len(words) >= 2 => TextWidth(wrap_lines[i]) <= wrap_width
          /\ Len(words) = 1 => wrap_lines[i] = words[1]
          /\ \A j \in 1..Len(words) :
               TextWidth(words[j]) > wrap_width => Len(words) = 1

C11_Witness ==
  /\ wrap_by = "calculate_bubble_height"
  /\ wrap_text = <<"W", "i", " ", "i", " ", "i">>
  /\ wrap_width = 3
  /\ wrap_lines = << <<"W", "i">>, <<"i", " ", "i">> >>
  /\ TextWidth(wrap_lines[1]) > wrap_width

(***************************************************************************)
(* C12 as claimed: the lines joined with single spaces split into the      *)
(* words of the text, in order, and no line is empty.                      *)
(***************************************************************************)
C12_RoundTripNoEmptyLine ==
  Wrapped =>
    /\ Split(Join(wrap_lines)) = Split(wrap_text)
    /\ \A i \in 1..Len(wrap_lines) : wrap_lines[i] # << >>

(***************************************************************************)
(* C12 amended: the lines joined with single spaces split into the words   *)
(* of the text, in order; for a text with words every line holds at least  *)
(* one word and is its words joined with single spaces; for a text without *)
(* words calculate_bubble_height has no line and draw_bubble has one line, *)
(* the text itself.                                                        *)
(***************************************************************************)
C12_RoundTrip ==
  Wrapped =>
    /\ Split(Join(wrap_lines)) = Split(wrap_text)
    /\ Split(wrap_text) # << >> =>
         \A i \in 1..Len(wrap_lines) :
           /\ Split(wrap_lines[i]) # << >>
           /\ wrap_lines[i] = Join(Split(wrap_lines[i]))
    /\ Split(wrap_text) = << >> =>
         wrap_lines = IF wrap_by = "draw_bubble" THEN << wrap_text >> ELSE << >>

C12_Witness ==
  /\ wrap_by = "draw_bubble"
  /\ wrap_text = <<"i", " ", " ", "W", " ", "i">>
  /\ wrap_width = 5
  /\ wrap_lines = << <<"i", " ", "W">>, <<"i">> >>
  /\ Split(Join(wrap_lines)) = << <<"i">>, <<"W">>, <<"i">> >>

(***************************************************************************)
(* Vocabulary of the progress values                                       *)
(***************************************************************************)
RatLe(a, b) == a.num * b.den <= b.num * a.den
RatEq(a, b) == a.num * b.den = b.num * a.den

\* a step of the job leaves its progress where it was or higher
ProgressNeverDecreases ==
  (JobId \in DOMAIN jobs /\ JobId \in DOMAIN jobs') =>
    RatLe(jobs[JobId].progress, (jobs')[JobId].progress)

(***************************************************************************)
(* C17: the values render reports start at 0.02, never go down, lie in     *)
(* (0, 1], and 1.0 is the last of them, reported once the frames are       *)
(* encoded, the last value of every render that returns; the progress of   *)
(* the job never goes down from one state to the next.                     *)
(***************************************************************************)
C17_ProgressMonotone ==
  /\ [](/\ reported # << >> => RatEq(reported[1], Hundredths(2))
        /\ \A i \in 1..Len(reported) :
             /\ reported[i].num > 0
             /\ RatLe(reported[i], Hundredths(100))
             /\ i > 1 => RatLe(reported[i - 1], reported[i])
             /\ RatEq(reported[i], Hundredths(100)) =>
                  /\ i = Len(reported)
                  /\ pc \in {"returned", "done"}
                  /\ encoded > 0 /\ output_path # "None"
        /\ pc = "returned" => RatEq(reported[Len(reported)], Hundredths(100))
        /\ JobId \in DOMAIN jobs =>
             /\ jobs[JobId].progress.num >= 0
             /\ RatLe(jobs[JobId].progress, Hundredths(100)))
  /\ [][ProgressNeverDecreases]_vars

C17_Witness ==
  /\ pc = "returned"
  /\ Len(Messages) = 2
  /\ request.enable_sounds
  /\ SelfMessage(Messages[1]) /\ Messages[1].text.len = 5
  /\ ~ SelfMessage(Messages[2])
  /\ Len(reported) = 12
  /\ RatEq(reported[3], [num |-> 37, den |-> 200])
  /\ RatEq(reported[12], Hundredths(100))
  /\ RatEq(jobs[JobId].progress, Hundredths(100))

(***************************************************************************)
(* C18: a job that was started ends completed or failed; the step that     *)
(* follows an exception of the render makes the job failed; a failed job   *)
(* has an error string, no video_url and no local_path, and nothing runs   *)
(* for it any more.                                                        *)
(***************************************************************************)
Started == JobId \in DOMAIN jobs
Failed == Started /\ jobs[JobId].status = "failed"
Terminal == Started /\ jobs[JobId].status \in {"completed", "failed"}

C18_JobTerminates ==
  /\ Started ~> Terminal
  /\ [][pc = "raised" => Failed']_vars
  /\ [](Failed => /\ jobs[JobId].error # "None"
                  /\ jobs[JobId].video_url = "None"
                  /\ jobs[JobId].local_path = "None"
                  /\ upload = "none")
  /\ [][~ Failed]_vars

C18_Witness ==
  /\ pc = "done"
  /\ Failed
  /\ jobs[JobId].error = "error"
  /\ Len(message_timings) = 1
  /\ Len(Messages) = 2
  /\ jobs[JobId].local_path = "None"

(***************************************************************************)
(* C19: when the upload step of a rendered job raised, the job is          *)
(* completed with no error, the file render wrote exists and is the job's  *)
(* local_path, the video_url is /download/{job_id} and the download        *)
(* endpoint serves the file; no job is failed after an upload was tried.   *)
(***************************************************************************)
C19_UploadFailureKeepsFile ==
  /\ upload \in {"upload_failed", "remove_failed"} =>
       /\ jobs[JobId].status = "completed"
       /\ jobs[JobId].error = "None"
       /\ local_file
       /\ output_path = LocalPath
       /\ jobs[JobId].local_path = output_path
       /\ jobs[JobId].video_url = DownloadUrl
       /\ download_video = 200
  /\ Failed => upload = "none"

C19_Witness ==
  /\ upload = "upload_failed"
  /\ jobs[JobId].status = "completed"
  /\ jobs[JobId].local_path = LocalPath
  /\ jobs[JobId].video_url = DownloadUrl
  /\ download_video = 200

(***************************************************************************)
(* Paginated screenshots                                                   *)
(***************************************************************************)
Paginated ==
  /\ screenshot_response # << >>
  /\ screenshot_request.mode = "paginated"

Pages == screenshot_response[1].images

RECURSIVE Flatten(_)
Flatten(pages) ==
  IF pages = << >> THEN << >> ELSE Head(pages) \o Flatten(Tail(pages))

Ceiling(a, b) == (a + b - 1) \div b

ContentHeight == SumSeq([i \in 1..Len(screenshot_request.messages) |-> screenshot_request.messages[i].height])

Oversized(message) == message.height > screenshot_request.viewport_height

NoneOversized ==
  \A i \in 1..Len(screenshot_request.messages) : ~ Oversized(screenshot_request.messages[i])

\* C21: in the paginated mode the pages, concatenated in page order, are the
\* full message list: every page is a run of consecutive messages, no message
\* is missing, on two pages or split, and no page is empty.
C21_PagesPartitionMessages ==
  Paginated =>
    /\ Flatten(Pages) = screenshot_request.messages
    /\ \A p \in 1..Len(Pages) :
         /\ Pages[p] # << >>
         /\ \A k \in 1..(Len(Pages[p]) - 1) : Pages[p][k + 1].id = Pages[p][k].id + 1
    /\ \A p \in 1..(Len(Pages) - 1) :
         Pages[p + 1][1].id = Pages[p][Len(Pages[p])].id + 1

\* three pages or more, one of them holding several messages
C21_Witness ==
  /\ Paginated
  /\ Len(Pages) >= 3
  /\ \E p \in 1..Len(Pages) : Len(Pages[p]) >= 2

\* C22 as claimed: the number of pages is the ceiling of the total content
\* height over the viewport height.
C22_PageCountIsCeiling ==
  Paginated =>
    screenshot_response[1].page_count =
      Ceiling(ContentHeight, screenshot_request.viewport_height)

\* C22: when no message alone exceeds the viewport, the number of pages is at
\* least the ceiling of the total content height over the viewport height.
C22_PageCountAtLeastCeiling ==
  (Paginated /\ NoneOversized) =>
    screenshot_response[1].page_count >=
      Ceiling(ContentHeight, screenshot_request.viewport_height)

\* a split of fitting messages into more pages than the ceiling
C22_Witness ==
  /\ Paginated
  /\ NoneOversized
  /\ screenshot_response[1].page_count >
       Ceiling(ContentHeight, screenshot_request.viewport_height)
  /\ Ceiling(ContentHeight, screenshot_request.viewport_height) >= 2

\* C23: a message higher than the viewport is answered with success and is
\* alone on its page; a conversation of one such message has exactly one page.
C23_OversizedMessageOwnPage ==
  Paginated =>
    /\ screenshot_response[1].success
    /\ \A p \in 1..Len(Pages) : \A k \in 1..Len(Pages[p]) :
         Oversized(Pages[p][k]) => Pages[p] = << Pages[p][k] >>
    /\ (Len(screenshot_request.messages) = 1 /\ Oversized(screenshot_request.messages[1])) =>
         /\ screenshot_response[1].page_count = 1
         /\ Pages = << screenshot_request.messages >>

\* an oversized message on a page of its own between two other pages
C23_Witness ==
  /\ Paginated
  /\ \E p \in 2..(Len(Pages) - 1) : Oversized(Pages[p][1]) /\ Len(Pages[p]) = 1

(***************************************************************************)
(* The scroll window over long conversations                               *)
(***************************************************************************)
Latest(ids) == ids[Len(ids)]

\* C26: when the content exceeds the viewport and the window starts at an
\* index s > 0, adding the message before the window would exceed the
\* available height, the typing indicator included; a window over a
\* non-empty list always holds the latest message.
C26_WindowMaximal ==
  \A f \in Windows :
    /\ f.visible # << >> => (f.drawn # << >> /\ Latest(f.drawn) = Latest(f.visible))
    /\ (~ ContentFits(f) /\ f.start_index > 0) =>
         /\ DrawnIsSuffix(f)
         /\ Len(f.drawn) = Len(f.visible) - f.start_index
         /\ SumSeq(HeightsOf(f.drawn)) + IndicatorHeight(f)
              + SumSeq(HeightsOf(<< f.visible[f.start_index] >>))
              > available_height(request)

\* windows that left two messages or more behind, with and without indicator
C26_Witness ==
  /\ \E f \in Windows :
       ~ ContentFits(f) /\ f.start_index >= 2 /\ f.show_typing_indicator
  /\ \E f \in Windows :
       ~ ContentFits(f) /\ f.start_index >= 2 /\ ~ f.show_typing_indicator

\* C29: over the frames in emission order the start index of the window
\* never decreases, so a message scrolled out is not drawn again, the step
\* from a typing-indicator frame to the frame of the received message
\* included.
C29_StartIndexNeverDecreases ==
  \A k \in 1..(Len(frames) - 1) :
    frames[k].frame.start_index <= frames[k + 1].frame.start_index

(***************************************************************************)
(* The typing indicator setting                                            *)
(***************************************************************************)
\* run k is the typing hold of a received message
IndicatorHoldRun(k) ==
  \E i \in 1..Len(Messages) : ~ SelfMessage(Messages[i]) /\ k = RunsBefore(i) + 1

\* C24: with show_typing_indicator off no frame shows the typing indicator;
\* with it on, the indicator shows exactly in the typing hold frames of
\* received messages, and in no frame of a self message.
C24_IndicatorFollowsSetting ==
  \A k \in 1..Len(frames) :
    frames[k].frame.indicator_drawn =
      (request.show_typing_indicator /\ IndicatorHoldRun(k))

(***************************************************************************)
(* The cumulative message list over the frames                             *)
(***************************************************************************)
\* the first n messages, as ids
FirstMessages(n) == [j \in 1..n |-> j]

\* the runs of message i are all emitted
Animated(i) == RunsBefore(i) + AnimRuns(i) <= Len(frames)

\* C25 as claimed: the bubbles drawn are a prefix of the message list that
\* grows by one message at a time; in the k-th keystroke frames of a self
\* message the bubbles drawn are the messages before it, the draft is the
\* first k characters and the pressed key is the k-th character; in its
\* 10-frame hold the draft is the full text and no key is pressed; a message
\* is drawn from its reading pause onward.
C25_DrawnPrefixGrows ==
  /\ \A k \in 1..Len(frames) :
       /\ frames[k].frame.drawn = FirstMessages(Len(frames[k].frame.drawn))
       /\ k < Len(frames) =>
            Len(frames[k + 1].frame.drawn) - Len(frames[k].frame.drawn) \in {0, 1}
  /\ \A i \in 1..Len(Messages) :
       (SelfMessage(Messages[i]) /\ Animated(i)) =>
         /\ \A c \in 1..Messages[i].text.len :
              LET f == frames[RunsBefore(i) + c].frame
              IN  /\ f.drawn = FirstMessages(i - 1)
                  /\ f.keyboard_typing_text = c
                  /\ f.highlighted_key = c
         /\ LET hold == frames[RunsBefore(i) + AnimRuns(i)]
            IN  /\ hold.n = 10
                /\ hold.frame.drawn = FirstMessages(i - 1)
                /\ hold.frame.keyboard_typing_text = Messages[i].text.len
                /\ hold.frame.highlighted_key = 0
  /\ \A i \in 1..Len(Messages) : \A k \in 1..Len(frames) :
       k >= PauseRunIndex(i) => InSeq(i, frames[k].frame.drawn)

\* C25: the list of messages a frame lays out is a prefix of the message
\* list that grows by one message at a time, and the bubbles drawn are the
\* scroll window of that list, its suffix from start_index; in the k-th
\* keystroke frames of a self message the list is the messages before it,
\* the draft is the first k characters and the pressed key is the k-th
\* character; in its 10-frame hold the draft is the full text and no key is
\* pressed; a message is in the list from its reading pause onward and is
\* drawn in the frames of that pause.
C25_VisiblePrefixGrows ==
  /\ \A k \in 1..Len(frames) :
       LET f == frames[k].frame
       IN  /\ f.visible = FirstMessages(Len(f.visible))
           /\ f.drawn = SubSeq(f.visible, f.start_index + 1, Len(f.visible))
           /\ k < Len(frames) =>
                Len(frames[k + 1].frame.visible) - Len(f.visible) \in {0, 1}
  /\ \A i \in 1..Len(Messages) :
       LET before == RunsBefore(i)
           length == Messages[i].text.len
           pause  == before + AnimRuns(i) + 1
       IN  /\ (SelfMessage(Messages[i]) /\ before + length + 1 <= Len(frames)) =>
                /\ \A c \in 1..length :
                     LET f == frames[before + c].frame
                     IN  /\ f.visible = FirstMessages(i - 1)
                         /\ f.keyboard_typing_text = c
                         /\ f.highlighted_key = c
                /\ LET hold == frames[before + length + 1]
                   IN  /\ hold.n = 10
                       /\ hold.frame.visible = FirstMessages(i - 1)
                       /\ hold.frame.keyboard_typing_text = length
                       /\ hold.frame.highlighted_key = 0
           /\ \A k \in pause..Len(frames) : InSeq(i, frames[k].frame.visible)
           /\ pause <= Len(frames) => InSeq(i, frames[pause].frame.drawn)

\* a self message typed under a window that has scrolled, and read
C25_Witness ==
  /\ Rendered
  /\ Len(Messages) = 2
  /\ SelfMessage(Messages[2])
  /\ Messages[2].text.len = 5
  /\ frames[PauseRunIndex(2)].frame.start_index = 1

(***************************************************************************)
(* The job entry as the clients see it                                     *)
(***************************************************************************)
StatusSteps ==
  { << "queued", "processing" >>, << "processing", "completed" >>,
    << "processing", "failed" >> }

\* one step of the server, seen from the job registry
StatusStep ==
  /\ \A id \in DOMAIN jobs :
       /\ id \in DOMAIN jobs'
       /\ \/ (jobs')[id].status = jobs[id].status
          \/ << jobs[id].status, (jobs')[id].status >> \in StatusSteps
       /\ jobs[id].status \in {"completed", "failed"} =>
            /\ (jobs')[id].status = jobs[id].status
            /\ (jobs')[id].error = jobs[id].error
            /\ (jobs')[id].video_url = jobs[id].video_url
  /\ \A id \in DOMAIN jobs' \ DOMAIN jobs :
       /\ id = JobId
       /\ pc = "idle" /\ pc' = "queued"
       /\ (jobs')[id].status = "queued"
  /\ (response' # response /\ response'[1].endpoint = "status") =>
       /\ jobs' = jobs
       /\ response'[1].code = 404 <=> response'[1].job_id \notin DOMAIN jobs

\* C27: the status of a job moves only queued -> processing -> completed or
\* queued -> processing -> failed; a completed or failed job keeps its status,
\* error and video_url; a job entry appears only when a render is started,
\* as queued; a status query for an unknown id is answered not-found and
\* leaves the registry as it was.
C27_StatusLifecycle == [][StatusStep]_vars

\* a completed job, and an unknown id answered not-found
C27_Witness ==
  /\ Started
  /\ jobs[JobId].status = "completed"
  /\ DOMAIN jobs = { JobId }
  /\ response = << NotFound("status", UnknownId) >>

\* C28: in every state a request can observe, a completed job has progress
\* 1.0 and a video_url, which is the upload's URL with local_path cleared or
\* /download/{job_id} with local_path set to the rendered file; a status
\* answer that says completed carries progress 1.0 and a video_url; the
\* download endpoint has served a file only for a completed job.
C28_CompletedJobConsistent ==
  /\ (Started /\ jobs[JobId].status = "completed") =>
       /\ RatEq(jobs[JobId].progress, Hundredths(100))
       /\ jobs[JobId].video_url # "None"
       /\ \/ jobs[JobId].video_url = SecureUrl /\ jobs[JobId].local_path = "None"
          \/ /\ jobs[JobId].video_url = DownloadUrl
             /\ jobs[JobId].local_path = output_path
             /\ output_path # "None"
  /\ (response # << >> /\ response[1].endpoint = "status" /\ response[1].code = 200) =>
       (response[1].status = "completed" =>
          /\ RatEq(response[1].progress, Hundredths(100))
          /\ response[1].video_url \in { SecureUrl, DownloadUrl })
  /\ (response # << >> /\ response[1].endpoint = "download" /\ response[1].code = 200) =>
       (Started /\ jobs[JobId].status = "completed")

\* a file served for a completed job that kept its local file
C28_Witness ==
  /\ Started
  /\ jobs[JobId].status = "completed"
  /\ jobs[JobId].video_url = DownloadUrl
  /\ response # << >>
  /\ response[1].endpoint = "download"
  /\ response[1].code = 200

(***************************************************************************)
(* A bubble as measured and as drawn                                       *)
(***************************************************************************)
BubbleDrawn == bubble # << >> /\ bubble[1].stage = "drawn"

\* C30: calculate_bubble_height and draw_bubble wrap a text into the same
\* number of lines, one line for an empty or blank text; draw_bubble
\* advances y by no more than the height calculate_bubble_height returned;
\* so when the bubble and the indicator's allowance fit above the bottom of
\* the message area, the bubble and the typing indicator bubble end above it.
C30_DrawnWithinMeasured ==
  BubbleDrawn =>
    LET b == bubble[1]
    IN  /\ b.drawn.lines = b.lines
        /\ Strip(wrap_text) = << >> => b.drawn.lines = 1
        /\ b.drawn.y_offset - b.y_offset <= b.height
        /\ b.y_offset + b.height + b.allowance <= message_area_bottom(request) =>
             /\ b.drawn.bottom <= message_area_bottom(request)
             /\ b.drawn.y_offset + b.allowance <= message_area_bottom(request)
             /\ b.indicator # << >> =>
                  b.indicator[1].bottom <= message_area_bottom(request)

\* a received bubble of a group chat, of several lines, drawn with the
\* indicator below it at the last place the height bound allows
C30_Witness ==
  /\ BubbleDrawn
  /\ bubble[1].lines >= 2
  /\ bubble[1].drawn.top > bubble[1].y_offset
  /\ bubble[1].indicator # << >>
  /\ bubble[1].y_offset + bubble[1].height + bubble[1].allowance
       = message_area_bottom(request)

====
